---- MODULE Spec2Model ----
(***************************************************************************)
(* Airline cargo network optimizer (src/app.py).                           *)
(*                                                                         *)
(* One run of the script after a file is uploaded: the two loops that      *)
(* build all_od_paths and leg_capacities from the rows of the two sheets,  *)
(* the linear program built from them and its solution, the OD summary,    *)
(* the leg breakdown and the priority classification.                      *)
(*                                                                         *)
(* Tonnages, capacities, shares and CMs are integers here.  The legs an    *)
(* indirect row names are A-B and B-C, so the constraint matrix of the     *)
(* program (two 0/1 rows that can hold more than one variable, plus unit   *)
(* rows) is totally unimodular and the optimum of the linear program over  *)
(* the reals is attained on the integer grid.  round(x, 2) is the identity *)
(* on these values, and no cell is NaN after fillna(0), so pd.notna is     *)
(* true of every cell.                                                     *)
(***************************************************************************)
EXTENDS Integers, Sequences, FiniteSets, TLC

VARIABLES
    pc,              \* where the script is: "direct", "indirect", "solve",
                     \* "report", then "done" (tables shown) or "error"
    n_direct,        \* rows of the first sheet iterated so far
    n_indirect,      \* rows of the second sheet iterated so far
    raised,          \* whether the last iteration ended in its except branch
    all_od_paths,    \* OD code -> [legs, cm, max_allocable]
    leg_capacities,  \* leg code -> capacity
    stated,          \* history: leg code -> the least capacity figure that
                     \* the complete records iterated so far state for it
    status,          \* the solver's status
    varValue,        \* OD code -> the value of its variable
    od_summary,      \* the rows of the OD summary
    df_leg_detail,   \* the rows of the leg breakdown
    df_leg_summary,  \* leg code -> total tonnage
    total_profit,    \* the value of the objective
    error            \* the exception st.error shows, "" when there is none

vars == <<pc, n_direct, n_indirect, raised, all_od_paths, leg_capacities,
          stated, status, varValue, od_summary, df_leg_detail,
          df_leg_summary, total_profit, error>>

(* ------------------------------ bounds -------------------------------- *)

\* rows the first sheet (direct markets) may hold
MaxDirect == 2

\* rows the second sheet (indirect markets) may hold
MaxIndirect == 2

(* --------------------------- input universe --------------------------- *)

\* OD codes are strings, kept as sequences of characters so that the
\* renaming of the solver's variables can be computed character by character.
\* No two of these codes get the same variable name: what PuLP does with
\* two variables of one name is not decided by src/app.py.
AB == <<"A", "-", "B">>
BC == <<"B", "-", "C">>
AC == <<"A", "-", "C">>
BA == <<"B", "-", "A">>
CD == <<"C", "_", "D">>

\* the empty dict
EmptyDict == [k \in {} |-> 0]

DirectKeys == {"O-D", "CM", "AI Share", "AI Cap"}

IndirectKeys == {"O-D", "CM", "AI Share", "1st Leg O-D", "2nd Leg O-D",
                 "1st Leg AI Cap", "2st Leg AI Cap"}

\* f restricted to the keys other than k: a row that lacks column k
Without(f, k) == [x \in (DOMAIN f) \ {k} |-> f[x]]

\* complete rows of the first sheet
FullDirectRows(codes, cms, shares, caps) ==
    { ("O-D" :> od) @@ ("CM" :> cm) @@ ("AI Share" :> sh) @@ ("AI Cap" :> cap) :
        od \in codes, cm \in cms, sh \in shares, cap \in caps }

\* complete rows of the second sheet
FullIndirectRows(codes, cms, shares, legpairs, caps) ==
    { ("O-D" :> od) @@ ("CM" :> cm) @@ ("AI Share" :> sh) @@
      ("1st Leg O-D" :> lp[1]) @@ ("2nd Leg O-D" :> lp[2]) @@
      ("1st Leg AI Cap" :> c1) @@ ("2st Leg AI Cap" :> c2) :
        od \in codes, cm \in cms, sh \in shares, lp \in legpairs,
        c1 \in caps, c2 \in caps }

\* the rows of R, each once more without one of the columns of keys
Lacking(R, keys) == { Without(r, k) : r \in R, k \in keys }

\* a record is well formed when it has every required field
WellFormedDirect(r) == DirectKeys \subseteq DOMAIN r

WellFormedIndirect(r) == IndirectKeys \subseteq DOMAIN r

(* ------------------------------ helpers ------------------------------- *)

Min(a, b) == IF a <= b THEN a ELSE b

\* dict assignment d[k] = v
Put(d, k, v) == [x \in (DOMAIN d) \cup {k} |-> IF x = k THEN v ELSE d[x]]

RECURSIVE SumOver(_, _)
\* the sum of f[k] over the keys k of S
SumOver(S, f) ==
    IF S = {} THEN 0
    ELSE LET k == CHOOSE x \in S : TRUE IN f[k] + SumOver(S \ {k}, f)

\* whether leg occurs in the list legs ("leg in props['legs']")
InLegs(leg, legs) == \E i \in 1..Len(legs) : legs[i] = leg

(* ----------------------- the two building loops ----------------------- *)

\* the body of the first loop on one row: every column is read before
\* anything is stored, so a missing column (KeyError) skips the whole row
DirectBody(r, paths, caps) ==
    IF ~({"O-D", "CM", "AI Share", "AI Cap"} \subseteq DOMAIN r)
    THEN [paths |-> paths, caps |-> caps]
    ELSE LET od == r["O-D"]
             cm == r["CM"]
             market_share == r["AI Share"]
             capacity == r["AI Cap"]
         IN  [paths |-> Put(paths, od, [legs |-> <<od>>, cm |-> cm,
                                         max_allocable |-> Min(market_share, capacity)]),
              caps  |-> Put(caps, od, capacity)]

\* the name of the capacity column of the leg at index i (from 0):
\* f'{i+1}st Leg AI Cap'
CapCol(i) == ToString(i + 1) \o "st Leg AI Cap"

RECURSIVE LegLoop(_, _, _, _)
\* "for i, leg in enumerate(legs)" from index i on: a missing capacity
\* column raises and ends the loop with the capacities stored so far
LegLoop(i, legs, r, caps) ==
    IF i >= Len(legs) THEN caps
    ELSE IF CapCol(i) \notin DOMAIN r THEN caps
    ELSE LET leg == legs[i + 1]
             leg_cap == r[CapCol(i)]
             old == IF leg \in DOMAIN caps THEN Min(caps[leg], leg_cap) ELSE leg_cap
         IN  LegLoop(i + 1, legs, r, Put(caps, leg, old))

\* the body of the second loop on one row: the path is stored before the
\* capacity columns are read
IndirectBody(r, paths, caps) ==
    IF ~({"O-D", "CM", "AI Share", "1st Leg O-D", "2nd Leg O-D"} \subseteq DOMAIN r)
    THEN [paths |-> paths, caps |-> caps]
    ELSE LET od == r["O-D"]
             cm == r["CM"]
             max_allocable == r["AI Share"]
             legs == <<r["1st Leg O-D"], r["2nd Leg O-D"]>>
         IN  [paths |-> Put(paths, od, [legs |-> legs, cm |-> cm,
                                         max_allocable |-> max_allocable]),
              caps  |-> LegLoop(0, legs, r, caps)]

\* whether the body of the first loop raises on row r
DirectRaises(r) == ~({"O-D", "CM", "AI Share", "AI Cap"} \subseteq DOMAIN r)

\* whether the body of the second loop raises on row r
IndirectRaises(r) ==
    \/ ~({"O-D", "CM", "AI Share", "1st Leg O-D", "2nd Leg O-D"} \subseteq DOMAIN r)
    \/ \E i \in 0..1 : CapCol(i) \notin DOMAIN r

\* the capacity figures a complete record states, as <<leg, figure>>
FiguresOf(r) ==
    IF "1st Leg O-D" \notin DOMAIN r /\ "2nd Leg O-D" \notin DOMAIN r
    THEN IF WellFormedDirect(r) THEN {<<r["O-D"], r["AI Cap"]>>} ELSE {}
    ELSE IF WellFormedIndirect(r)
         THEN {<<r["1st Leg O-D"], r["1st Leg AI Cap"]>>,
               <<r["2nd Leg O-D"], r["2st Leg AI Cap"]>>}
         ELSE {}

\* the least figure stated for each leg: m, lowered by the figures of figs
MinFold(m, figs) ==
    LET legs == DOMAIN m \cup {f[1] : f \in figs}
        all(leg) == {f[2] : f \in {g \in figs : g[1] = leg}}
                    \cup (IF leg \in DOMAIN m THEN {m[leg]} ELSE {})
    IN  [leg \in legs |-> CHOOSE c \in all(leg) : \A d \in all(leg) : c <= d]

Init ==
    /\ pc = "direct"
    /\ n_direct = 0
    /\ n_indirect = 0
    /\ raised = FALSE
    /\ all_od_paths = EmptyDict
    /\ leg_capacities = EmptyDict
    /\ stated = EmptyDict
    /\ status = "Not Solved"
    /\ varValue = EmptyDict
    /\ od_summary = <<>>
    /\ df_leg_detail = <<>>
    /\ df_leg_summary = EmptyDict
    /\ total_profit = 0
    /\ error = ""

Built == <<n_direct, n_indirect, raised, all_od_paths, leg_capacities, stated>>

Later == <<status, varValue, od_summary, df_leg_detail, df_leg_summary,
           total_profit, error>>

\* one iteration of "for _, row in direct_routes.iterrows()"
DirectIter(r) ==
    /\ pc = "direct"
    /\ n_direct < MaxDirect
    /\ LET b == DirectBody(r, all_od_paths, leg_capacities)
       IN  /\ all_od_paths' = b.paths
           /\ leg_capacities' = b.caps
    /\ raised' = DirectRaises(r)
    /\ n_direct' = n_direct + 1
    /\ stated' = MinFold(stated, FiguresOf(r))
    /\ UNCHANGED <<pc, n_indirect, Later>>

\* the first loop ends
DirectDone ==
    /\ pc = "direct"
    /\ pc' = "indirect"
    /\ UNCHANGED <<Built, Later>>

\* one iteration of "for _, row in indirect_routes.iterrows()"
IndirectIter(r) ==
    /\ pc = "indirect"
    /\ n_indirect < MaxIndirect
    /\ LET b == IndirectBody(r, all_od_paths, leg_capacities)
       IN  /\ all_od_paths' = b.paths
           /\ leg_capacities' = b.caps
    /\ raised' = IndirectRaises(r)
    /\ n_indirect' = n_indirect + 1
    /\ stated' = MinFold(stated, FiguresOf(r))
    /\ UNCHANGED <<pc, n_direct, Later>>

\* the second loop ends
IndirectDone ==
    /\ pc = "indirect"
    /\ pc' = "solve"
    /\ UNCHANGED <<Built, Later>>

(* ------------------------- the linear program ------------------------- *)

\* tonnages a variable may take: every variable is bounded by its ceiling,
\* which is one of the non-negative figures of the rows
Tons == 0 .. 2

\* the program without the constraint of line 54 (a path's own ceiling)
BuildProbNoCeiling(paths, caps) ==
    [ objective   |-> [od \in DOMAIN paths |-> paths[od].cm],
      constraints |->
          { [vars |-> {od \in DOMAIN paths : InLegs(leg, paths[od].legs)},
             rhs  |-> caps[leg]] : leg \in DOMAIN caps } ]

\* lines 48-54: the objective's coefficients (one variable per key of
\* all_od_paths, lowBound 0) and the constraints "sum of vars <= rhs": one
\* per key of leg_capacities, then one per path
BuildProb(paths, caps) ==
    [ objective   |-> [od \in DOMAIN paths |-> paths[od].cm],
      constraints |->
          { [vars |-> {od \in DOMAIN paths : InLegs(leg, paths[od].legs)},
             rhs  |-> caps[leg]] : leg \in DOMAIN caps }
          \cup
          { [vars |-> {od}, rhs |-> paths[od].max_allocable] : od \in DOMAIN paths } ]

\* x satisfies every constraint of prob
Feasible(x, prob) == \A c \in prob.constraints : SumOver(c.vars, x) <= c.rhs

\* the value of the objective at x
Objective(x, prob) ==
    SumOver(DOMAIN x, [od \in DOMAIN x |-> x[od] * prob.objective[od]])

\* the largest element of a non-empty set of integers
MaxOf(S) == CHOOSE m \in S : \A n \in S : n <= m

\* prob.solve(): the solver's status and the values it leaves in the
\* variables.  A feasible program ends "Optimal" with some optimal point
\* (which one, among several, is the solver's choice); an infeasible one
\* ends "Infeasible" with whatever values the solver stopped at.
SolverOutcomes(prob) ==
    LET grid == [DOMAIN prob.objective -> Tons]
        F    == {x \in grid : Feasible(x, prob)}
    IN  IF F # {}
        THEN LET best == MaxOf({Objective(x, prob) : x \in F})
             IN  {[status |-> "Optimal", values |-> x] :
                     x \in {y \in F : Objective(y, prob) = best}}
        ELSE {[status |-> "Infeasible", values |-> x] :
                 x \in [DOMAIN prob.objective -> {0, 1}]}

(* ---------------------- names of the variables ------------------------ *)

Prefix == <<"C", "a", "r", "g", "o", "T", "o", "n", "s", "_">>

\* the characters PuLP replaces by "_" in a name (LpElement.illegal_chars)
IllegalChars == {"-", "+", "[", "]", " ", ">", "/"}

\* LpVariable.dicts("CargoTons", keys): the name "CargoTons_<key>" with
\* every illegal character replaced by "_"
VarName(od) ==
    Prefix \o [i \in 1..Len(od) |-> IF od[i] \in IllegalChars THEN "_" ELSE od[i]]

RECURSIVE RemoveAll(_, _)
\* str.replace(pat, ""): every occurrence of pat, left to right, removed
RemoveAll(s, pat) ==
    IF Len(s) < Len(pat) THEN s
    ELSE IF SubSeq(s, 1, Len(pat)) = pat
    THEN RemoveAll(SubSeq(s, Len(pat) + 1, Len(s)), pat)
    ELSE <<s[1]>> \o RemoveAll(Tail(s), pat)

\* v.name.replace("CargoTons_", "").replace("_", "-")
RecoverOD(name) ==
    LET t == RemoveAll(name, Prefix)
    IN  [i \in 1..Len(t) |-> IF t[i] = "_" THEN "-" ELSE t[i]]

\* code points of the characters that occur in names
Ord(c) ==
    CASE c = "-" -> 45 [] c = "A" -> 65 [] c = "B" -> 66 [] c = "C" -> 67
      [] c = "D" -> 68 [] c = "T" -> 84 [] c = "_" -> 95 [] c = "a" -> 97
      [] c = "g" -> 103 [] c = "n" -> 110 [] c = "o" -> 111 [] c = "r" -> 114
      [] c = "s" -> 115

RECURSIVE StrLess(_, _)
\* s < t for strings
StrLess(s, t) ==
    IF t = <<>> THEN FALSE
    ELSE IF s = <<>> THEN TRUE
    ELSE IF s[1] # t[1] THEN Ord(s[1]) < Ord(t[1])
    ELSE StrLess(Tail(s), Tail(t))

RECURSIVE SortedByName(_)
\* prob.variables(): the variables in the order of their names
SortedByName(S) ==
    IF S = {} THEN <<>>
    ELSE LET first == CHOOSE a \in S :
                         \A b \in S \ {a} : StrLess(VarName(a), VarName(b))
         IN  <<first>> \o SortedByName(S \ {first})

\* prob.solve()
Solve ==
    /\ pc = "solve"
    /\ \E o \in SolverOutcomes(BuildProb(all_od_paths, leg_capacities)) :
          /\ status' = o.status
          /\ varValue' = o.values
    /\ pc' = "report"
    /\ UNCHANGED <<Built, od_summary, df_leg_detail, df_leg_summary, total_profit,
                   error>>

(* ------------------- OD summary and leg breakdown --------------------- *)

RECURSIVE SummaryRows(_, _, _)
\* lines 59-66: one row per variable with a positive value, in the order
\* of prob.variables(); the OD code is recovered from the variable's name
SummaryRows(names, vals, paths) ==
    IF names = <<>> THEN <<>>
    ELSE LET v    == names[1]
             rest == SummaryRows(Tail(names), vals, paths)
         IN  IF vals[v] > 0
             THEN LET od == RecoverOD(VarName(v))
                  IN  <<[od |-> od, tons |-> vals[v], cm |-> paths[od].cm,
                         profit |-> vals[v] * paths[od].cm]>> \o rest
             ELSE rest

\* whether all_od_paths[od] at line 64 raises KeyError for some variable
LookupRaises(vals, paths) ==
    \E v \in DOMAIN vals : vals[v] > 0 /\ RecoverOD(VarName(v)) \notin DOMAIN paths

RECURSIVE LegRecords(_, _)
\* lines 70-80: for every row of the summary, one record per leg of its path
LegRecords(summary, paths) ==
    IF summary = <<>> THEN <<>>
    ELSE LET r    == summary[1]
             legs == paths[r.od].legs
         IN  [i \in 1..Len(legs) |->
                 [leg |-> legs[i], od |-> r.od, cm |-> r.cm, tons |-> r.tons,
                  profit |-> r.tons * r.cm,
                  priority_type |-> "Fills Remaining", rank |-> 0]]
             \o LegRecords(Tail(summary), paths)

\* line 99, 106: a path with one leg is direct
IsDirect(od, paths) == Len(paths[od].legs) = 1

\* the order of a sort on CM alone (no is_direct key)
SortsBeforeByCMOnly(recs, paths, j, i) ==
    \/ recs[j].cm > recs[i].cm
    \/ recs[j].cm = recs[i].cm /\ j < i

\* the order of a sort with ascending=[True, False]
SortsBeforeAscending(recs, paths, j, i) ==
    \/ recs[j].cm < recs[i].cm
    \/ /\ recs[j].cm = recs[i].cm
       /\ \/ IsDirect(recs[j].od, paths) /\ ~IsDirect(recs[i].od, paths)
          \/ /\ IsDirect(recs[j].od, paths) = IsDirect(recs[i].od, paths)
             /\ j < i

\* line 100: whether record j comes before record i after
\* sort_values(by=[CM, is_direct], ascending=[False, False]), which keeps
\* the records that tie on both keys in their order in the frame
SortsBefore(recs, paths, j, i) ==
    \/ recs[j].cm > recs[i].cm
    \/ /\ recs[j].cm = recs[i].cm
       /\ \/ IsDirect(recs[j].od, paths) /\ ~IsDirect(recs[i].od, paths)
          \/ /\ IsDirect(recs[j].od, paths) = IsDirect(recs[i].od, paths)
             /\ j < i

\* lines 107-116: the label of a record on a leg with several records
Label(cm, top_cm, is_direct) ==
    IF cm = top_cm /\ is_direct THEN "Highest CM - Direct"
    ELSE IF cm = top_cm /\ ~is_direct THEN "Highest CM - Indirect"
    ELSE IF is_direct THEN "Direct - Lower CM"
    ELSE "Indirect - Lower CM"

\* lines 88-119: the records with their priority type and rank
Classify(recs, paths) ==
    [i \in 1..Len(recs) |->
        LET group  == {j \in 1..Len(recs) : recs[j].leg = recs[i].leg}
            top_cm == MaxOf({recs[j].cm : j \in group})
        IN  IF Cardinality(group) = 1
            THEN [recs[i] EXCEPT !.priority_type = "Only OD", !.rank = 1]
            ELSE [recs[i] EXCEPT
                    !.priority_type = Label(recs[i].cm, top_cm, IsDirect(recs[i].od, paths)),
                    !.rank = 1 + Cardinality({j \in group : SortsBefore(recs, paths, j, i)})]]

\* line 121: the tonnage of the records of each leg
LegSummary(recs) ==
    [leg \in {recs[i].leg : i \in 1..Len(recs)} |->
        SumOver({i \in 1..Len(recs) : recs[i].leg = leg},
                [i \in 1..Len(recs) |-> recs[i].tons])]

\* lines 58-147, and 149-150 when one of them raises: the lookup of a
\* recovered OD code that is no key of all_od_paths, or
\* groupby("Flight Leg") on a frame built from no record, which has no
\* such column
Report ==
    /\ pc = "report"
    /\ IF LookupRaises(varValue, all_od_paths)
       THEN /\ pc' = "error"
            /\ error' = "KeyError: the recovered OD code"
            /\ UNCHANGED <<od_summary, df_leg_detail, df_leg_summary, total_profit>>
       ELSE LET summary == SummaryRows(SortedByName(DOMAIN varValue), varValue,
                                       all_od_paths)
                recs    == LegRecords(summary, all_od_paths)
            IN  IF recs = <<>>
                THEN /\ pc' = "error"
                     /\ error' = "KeyError: 'Flight Leg'"
                     /\ UNCHANGED <<od_summary, df_leg_detail, df_leg_summary,
                                    total_profit>>
                ELSE /\ pc' = "done"
                     /\ error' = ""
                     /\ od_summary' = summary
                     /\ df_leg_detail' = Classify(recs, all_od_paths)
                     /\ df_leg_summary' = LegSummary(recs)
                     /\ total_profit' =
                            Objective(varValue, BuildProb(all_od_paths, leg_capacities))
    /\ UNCHANGED <<Built, status, varValue>>

(* --------------------------- specifications --------------------------- *)

\* contribution margins a row may carry
CMs == {-1, 1, 2}

\* the rows the first sheet may hold
DirectRows == FullDirectRows({AB, BC}, CMs, {1, 2}, {1, 3})

\* the rows the second sheet may hold
IndirectRows ==
    FullIndirectRows({AC, BA}, {1, 2}, {1, 2}, {<<AB, BC>>, <<BC, BC>>}, {3})

ReadDirect == \E r \in DirectRows : DirectIter(r)

ReadIndirect == \E r \in IndirectRows : IndirectIter(r)

Next == ReadDirect \/ DirectDone \/ ReadIndirect \/ IndirectDone \/ Solve \/ Report

\* runs on sheets whose rows are complete and whose figures are not negative
Spec == Init /\ [][Next]_vars

\* rows of a first sheet that may lack a column or carry an OD code with
\* an underscore
RawDirectRows ==
    LET full == FullDirectRows({AB, CD}, {-1, 1}, {1, 2}, {1, 2})
    IN  full \cup Lacking(full, {"O-D", "AI Cap"})

\* rows of a second sheet that may lack a column or carry an OD code with
\* an underscore
RawIndirectRows ==
    LET full == FullIndirectRows({AC, CD}, {1}, {1, 2}, {<<AB, BC>>}, {1, 2})
    IN  full \cup Lacking(full, {"2nd Leg O-D", "1st Leg AI Cap", "2st Leg AI Cap"})

ReadDirectRaw == \E r \in RawDirectRows : DirectIter(r)

ReadIndirectRaw == \E r \in RawIndirectRows : IndirectIter(r)

NextRaw ==
    ReadDirectRaw \/ DirectDone \/ ReadIndirectRaw \/ IndirectDone \/ Solve \/ Report

\* runs on sheets with incomplete rows and with other OD codes
SpecRaw == Init /\ [][NextRaw]_vars

\* complete rows of a first sheet that may carry a negative figure
NegativeDirectRows == FullDirectRows({AB, BC}, {1, 2}, {-1, 2}, {-1, 2})

\* complete rows of a second sheet that may carry a negative figure
NegativeIndirectRows ==
    FullIndirectRows({AC}, {1, 2}, {-1, 2}, {<<AB, BC>>}, {-1, 2})

ReadDirectNegative == \E r \in NegativeDirectRows : DirectIter(r)

ReadIndirectNegative == \E r \in NegativeIndirectRows : IndirectIter(r)

NextNegative ==
    \/ ReadDirectNegative \/ DirectDone \/ ReadIndirectNegative \/ IndirectDone
    \/ Solve \/ Report

\* runs on sheets with negative shares and capacities
SpecNegative == Init /\ [][NextNegative]_vars

(* ------------------------------ claims -------------------------------- *)

\* the registered paths whose leg sequence contains leg
PathsOver(leg) ==
    {od \in DOMAIN all_od_paths : InLegs(leg, all_od_paths[od].legs)}

\* the tonnage x puts on leg
LegLoad(leg, x) == SumOver(PathsOver(leg), x)

\* the solver has returned
Solved == pc \in {"report", "done", "error"}

\* the indices of the leg breakdown's records of leg
RecordsOf(leg) == {i \in 1..Len(df_leg_detail) : df_leg_detail[i].leg = leg}

\* the legs that occur in the leg breakdown
DetailLegs == {df_leg_detail[i].leg : i \in 1..Len(df_leg_detail)}

\* C1: after build and solve, on every leg of a registered path the
\* allocated tonnage of the paths over that leg is at most the least
\* capacity figure any input record states for the leg.
C1Claim ==
    (Solved /\ status = "Optimal") =>
        \A leg \in DOMAIN stated :
            PathsOver(leg) # {} => LegLoad(leg, varValue) <= stated[leg]

\* x respects every path's ceiling and every stored leg capacity
LPFeasible(x) ==
    /\ \A od \in DOMAIN all_od_paths :
          0 <= x[od] /\ x[od] <= all_od_paths[od].max_allocable
    /\ \A leg \in DOMAIN leg_capacities : LegLoad(leg, x) <= leg_capacities[leg]

\* the total of tonnage x CM
Profit(x) ==
    SumOver(DOMAIN all_od_paths,
            [od \in DOMAIN all_od_paths |-> x[od] * all_od_paths[od].cm])

\* C2: the allocation returned satisfies the ceilings and the leg
\* capacities, no assignment that satisfies them has a larger total of
\* tonnage x CM, a path with negative CM gets 0 and a path with positive
\* CM is filled until its ceiling or the capacity of one of its legs binds.
C2Optimal ==
    (pc = "report" /\ status = "Optimal") =>
        /\ LPFeasible(varValue)
        /\ \A y \in [DOMAIN all_od_paths -> Tons] :
              LPFeasible(y) => Profit(y) <= Profit(varValue)
        /\ \A od \in DOMAIN all_od_paths :
              LET p == all_od_paths[od]
              IN  /\ p.cm < 0 => varValue[od] = 0
                  /\ p.cm > 0 =>
                        \/ varValue[od] = p.max_allocable
                        \/ \E i \in 1..Len(p.legs) :
                              /\ p.legs[i] \in DOMAIN leg_capacities
                              /\ LegLoad(p.legs[i], varValue)
                                    = leg_capacities[p.legs[i]]

\* C2's case: a path with negative CM and a positive ceiling, and a path
\* with positive CM held below its ceiling by a leg it shares with another
\* path that carries cargo
C2Witness ==
    /\ pc = "report"
    /\ status = "Optimal"
    /\ \E od \in DOMAIN all_od_paths :
          all_od_paths[od].cm < 0 /\ all_od_paths[od].max_allocable > 0
    /\ \E od \in DOMAIN all_od_paths, other \in DOMAIN all_od_paths :
          /\ od # other
          /\ all_od_paths[od].cm > 0
          /\ varValue[od] < all_od_paths[od].max_allocable
          /\ varValue[other] > 0
          /\ \E leg \in DOMAIN leg_capacities : {od, other} \subseteq PathsOver(leg)

\* C3: after the build, the stored capacity of every leg is the least of
\* the capacity figures the input records state for it.
C3Claim == pc = "solve" => leg_capacities = stated

\* C4: an iteration on a malformed record leaves all_od_paths and
\* leg_capacities as they were.
C4Claim ==
    [][ (raised' /\ (n_direct' # n_direct \/ n_indirect' # n_indirect))
            => (all_od_paths' = all_od_paths /\ leg_capacities' = leg_capacities) ]_vars

\* C5: when the program is infeasible the run ends in a failure that
\* reports the infeasibility, never in the tables.
C5Claim ==
    (status = "Infeasible" /\ pc \in {"done", "error"}) =>
        (pc = "error" /\ error = "Infeasible")

\* C6: on every leg with two or more records the ranks are exactly 1..n,
\* each used once, rank 1 has the leg's largest CM, and a better rank never
\* has a smaller CM.
C6Ranks ==
    pc = "done" =>
        \A leg \in DetailLegs :
            LET G == RecordsOf(leg)
            IN  Cardinality(G) >= 2 =>
                  /\ {df_leg_detail[i].rank : i \in G} = 1..Cardinality(G)
                  /\ \A i \in G, j \in G :
                        i # j => df_leg_detail[i].rank # df_leg_detail[j].rank
                  /\ \A i \in G :
                        df_leg_detail[i].rank = 1 =>
                            \A j \in G : df_leg_detail[j].cm <= df_leg_detail[i].cm
                  /\ \A i \in G, j \in G :
                        df_leg_detail[i].rank < df_leg_detail[j].rank
                            => df_leg_detail[i].cm >= df_leg_detail[j].cm

\* C6's case: a leg with the records of three paths that do not all have
\* the same CM
C6Witness ==
    /\ pc = "done"
    /\ \E leg \in DetailLegs :
          /\ Cardinality({df_leg_detail[i].od : i \in RecordsOf(leg)}) >= 3
          /\ \E i \in RecordsOf(leg), j \in RecordsOf(leg) :
                df_leg_detail[i].cm # df_leg_detail[j].cm

\* C7: of two records of a leg with equal CM, one of a direct path and one
\* of an indirect path, the direct one has the strictly smaller rank.
C7DirectFirst ==
    pc = "done" =>
        \A i \in 1..Len(df_leg_detail), j \in 1..Len(df_leg_detail) :
            ( /\ df_leg_detail[i].leg = df_leg_detail[j].leg
              /\ df_leg_detail[i].cm = df_leg_detail[j].cm
              /\ Len(all_od_paths[df_leg_detail[i].od].legs) = 1
              /\ Len(all_od_paths[df_leg_detail[j].od].legs) = 2 )
            => df_leg_detail[i].rank < df_leg_detail[j].rank

\* C7's case: such a pair where the indirect path's record comes first in
\* the frame, so that only the second sort key puts the direct one ahead
C7Witness ==
    /\ pc = "done"
    /\ \E i \in 1..Len(df_leg_detail), j \in 1..Len(df_leg_detail) :
          /\ j < i
          /\ df_leg_detail[i].leg = df_leg_detail[j].leg
          /\ df_leg_detail[i].cm = df_leg_detail[j].cm
          /\ Len(all_od_paths[df_leg_detail[i].od].legs) = 1
          /\ Len(all_od_paths[df_leg_detail[j].od].legs) = 2

\* the paths with positive tonnage over leg
Contributors(leg) == {od \in PathsOver(leg) : varValue[od] > 0}

\* C8: the record of a leg that exactly one path with positive tonnage
\* traverses is labelled "Only OD" with rank 1, and no record of a leg with
\* two or more contributing paths is labelled "Only OD".
C8Claim ==
    pc = "done" =>
        \A leg \in DetailLegs :
            /\ Cardinality(Contributors(leg)) = 1 =>
                  \A i \in RecordsOf(leg) :
                      /\ df_leg_detail[i].priority_type = "Only OD"
                      /\ df_leg_detail[i].rank = 1
            /\ Cardinality(Contributors(leg)) >= 2 =>
                  \A i \in RecordsOf(leg) :
                      df_leg_detail[i].priority_type # "Only OD"

\* C9: a run on complete rows with non-negative figures (and at least one
\* path) ends with the tables, never with the error.
C9Claim ==
    (pc \in {"done", "error"} /\ DOMAIN all_od_paths # {}) =>
        (pc = "done" /\ error = "")

\* C10: for every OD code of the registry whose code the OD summary
\* recovers from the name of its variable, the recovered code is that code,
\* so its lookup in the registry succeeds.
C10Claim ==
    pc = "report" =>
        \A od \in DOMAIN varValue :
            varValue[od] > 0 =>
                /\ RecoverOD(VarName(od)) = od
                /\ RecoverOD(VarName(od)) \in DOMAIN all_od_paths

====
